---- MODULE Spec2Model ----
(***************************************************************************)
(* Model of PredictiveMaintenanceETL                                       *)
(* (src/CSV_ETL_PredictiveMaintenance-AI.py): the schema validator         *)
(* validate_data, the metrics engine calculate_metrics and the             *)
(* orchestration process_csv_data.                                         *)
(*                                                                         *)
(* Text is a sequence of string pieces (an f-string is the concatenation   *)
(* of its pieces, str.join inserts the separator piece).  A float is an    *)
(* exact rational n/d, or one of the IEEE specials nan, inf, -inf.  The    *)
(* vocabulary of field strings is chosen so that exact decimal arithmetic  *)
(* and binary double arithmetic give the same rounded results.             *)
(***************************************************************************)
EXTENDS Integers, Sequences, FiniteSets, TLC

VARIABLES pc, call, records, validation, calc_calls, calculations, output, raised

vars == <<pc, call, records, validation, calc_calls, calculations, output, raised>>

(***************************************************************************)
(* Bounds of the model.                                                    *)
(***************************************************************************)
\* longest batch of rows drawn from SmallPool
MaxRows == 3

(***************************************************************************)
(* Floats.                                                                 *)
(***************************************************************************)
Abs(x) == IF x < 0 THEN -x ELSE x

RECURSIVE GCD(_, _)
GCD(a, b) == IF b = 0 THEN a ELSE GCD(b, a % b)

\* the finite float n/d (d > 0), in lowest terms
Fin(n, d) == LET g == GCD(Abs(n), d) IN [k |-> "fin", n |-> n \div g, d |-> d \div g]

NaN == [k |-> "nan", n |-> 0, d |-> 1]
Inf == [k |-> "inf", n |-> 1, d |-> 1]
NegInf == [k |-> "inf", n |-> -1, d |-> 1]

\* the float of a Python int, as the arithmetic operators coerce it
FromInt(i) == Fin(i, 1)

IsNaN(x) == x.k = "nan"
IsZero(x) == x.k = "fin" /\ x.n = 0
Sign(x) == IF x.n > 0 THEN 1 ELSE IF x.n < 0 THEN -1 ELSE 0
SignedInf(s) == IF s > 0 THEN Inf ELSE NegInf

\* a < b on floats: every comparison with nan is false
FLt(a, b) ==
    IF IsNaN(a) \/ IsNaN(b) THEN FALSE
    ELSE IF a.k = "inf" /\ b.k = "inf" THEN a.n < b.n
    ELSE IF a.k = "inf" THEN a.n < 0
    ELSE IF b.k = "inf" THEN b.n > 0
    ELSE a.n * b.d < b.n * a.d

FGt(a, b) == FLt(b, a)

\* a == b on floats
FEq(a, b) ==
    IF IsNaN(a) \/ IsNaN(b) THEN FALSE
    ELSE a.k = b.k /\ a.n * b.d = b.n * a.d

FLe(a, b) == FLt(a, b) \/ FEq(a, b)
FGe(a, b) == FLe(b, a)

FNeg(a) == IF IsNaN(a) THEN NaN ELSE [a EXCEPT !.n = -a.n]

FMul(a, b) ==
    IF IsNaN(a) \/ IsNaN(b) THEN NaN
    ELSE IF a.k = "inf" \/ b.k = "inf"
         THEN IF Sign(a) = 0 \/ Sign(b) = 0 THEN NaN ELSE SignedInf(Sign(a) * Sign(b))
    ELSE Fin(a.n * b.n, a.d * b.d)

FAdd(a, b) ==
    IF IsNaN(a) \/ IsNaN(b) THEN NaN
    ELSE IF a.k = "inf" /\ b.k = "inf" THEN (IF a.n = b.n THEN a ELSE NaN)
    ELSE IF a.k = "inf" THEN a
    ELSE IF b.k = "inf" THEN b
    ELSE Fin(a.n * b.d + b.n * a.d, a.d * b.d)

FSub(a, b) == FAdd(a, FNeg(b))

\* a / b for b # 0 (Python raises ZeroDivisionError on a zero divisor)
FDiv(a, b) ==
    IF IsNaN(a) \/ IsNaN(b) THEN NaN
    ELSE IF a.k = "inf" /\ b.k = "inf" THEN NaN
    ELSE IF a.k = "inf" THEN SignedInf(Sign(a) * Sign(b))
    ELSE IF b.k = "inf" THEN Fin(0, 1)
    ELSE Fin(a.n * b.d * Sign(b), a.d * Abs(b.n))

\* the integer nearest to n/d (d > 0), a tie going to the even one
RoundHalfEven(n, d) ==
    LET q == n \div d
        r == n % d
    IN  IF 2 * r < d THEN q
        ELSE IF 2 * r > d THEN q + 1
        ELSE IF q % 2 = 0 THEN q ELSE q + 1

\* round(x, 2): nan and the infinities are returned unchanged
Round2(x) == IF x.k # "fin" THEN x ELSE Fin(RoundHalfEven(100 * x.n, x.d), 100)

(***************************************************************************)
(* Strings: str.strip, int() and float() on the vocabulary of field        *)
(* strings.                                                                *)
(***************************************************************************)
\* the strings with surrounding whitespace, and what str.strip leaves
Padded == ("  " :> "") @@ (" 50 " :> "50") @@ (" 200 " :> "200")

Strip(s) == IF s \in DOMAIN Padded THEN Padded[s] ELSE s

\* the integer literals
IntOf ==
    ("0" :> 0) @@ ("1" :> 1) @@ ("2" :> 2) @@ ("3" :> 3) @@ ("5" :> 5) @@ ("10" :> 10)
    @@ ("30" :> 30) @@ ("40" :> 40) @@ ("50" :> 50) @@ ("80" :> 80) @@ ("100" :> 100)
    @@ ("200" :> 200) @@ ("300" :> 300) @@ ("-5" :> -5)

\* the decimal literals with a fraction, as <<numerator, denominator>>
DecimalOf ==
    ("2.4" :> <<24, 10>>) @@ ("0.002" :> <<2, 1000>>) @@ ("0.004" :> <<4, 1000>>)
    @@ ("200.01" :> <<20001, 100>>) @@ ("100.5" :> <<1005, 10>>)

\* float(value): the float, or ValueError
ParseFloat(value) ==
    IF value \in DOMAIN IntOf THEN [ok |-> TRUE, v |-> FromInt(IntOf[value])]
    ELSE IF value \in DOMAIN DecimalOf
         THEN [ok |-> TRUE, v |-> Fin(DecimalOf[value][1], DecimalOf[value][2])]
    ELSE IF value = "nan" THEN [ok |-> TRUE, v |-> NaN]
    ELSE IF value = "inf" THEN [ok |-> TRUE, v |-> Inf]
    ELSE IF value = "-inf" THEN [ok |-> TRUE, v |-> NegInf]
    ELSE [ok |-> FALSE, v |-> NaN]

\* int(value): the int, or ValueError
ParseInt(value) ==
    IF value \in DOMAIN IntOf THEN [ok |-> TRUE, v |-> IntOf[value]]
    ELSE [ok |-> FALSE, v |-> 0]

\* sep.join(texts), a text being a sequence of pieces
RECURSIVE Join(_, _)
Join(texts, sep) ==
    IF texts = <<>> THEN <<>>
    ELSE IF Len(texts) = 1 THEN texts[1]
    ELSE texts[1] \o <<sep>> \o Join(Tail(texts), sep)

(***************************************************************************)
(* The schema.                                                             *)
(***************************************************************************)
field_requirements ==
    [machine_id |-> [type |-> "string"],
     runtime_hours |-> [type |-> "positive_integer"],
     vibration_level |-> [type |-> "positive_number"],
     temperature |-> [type |-> "range", min |-> 0, max |-> 200],
     maintenance_threshold |-> [type |-> "range", min |-> 0, max |-> 100],
     max_operating_hours |-> [type |-> "positive_integer"],
     scaling_factor |-> [type |-> "positive_number"]]

required_fields ==
    <<"machine_id", "runtime_hours", "vibration_level", "temperature",
      "maintenance_threshold", "max_operating_hours", "scaling_factor">>

(***************************************************************************)
(* validate_data.                                                          *)
(***************************************************************************)
\* the accepted value stored in valid_record
Accept(acc, field, v) == [acc EXCEPT !.valid_record = (field :> v) @@ @]

\* the message appended to row_errors
Reject(acc, msg) == [acc EXCEPT !.row_errors = Append(@, msg)]

ValidatePositiveInteger(acc, field, value) ==
    LET p == ParseInt(value)
        msg == <<"Invalid value for ", field, ": must be a positive integer">>
    IN  IF ~p.ok THEN Reject(acc, msg)
        ELSE IF p.v <= 0 THEN Reject(acc, msg)
        ELSE Accept(acc, field, p.v)

ValidatePositiveNumber(acc, field, value) ==
    LET p == ParseFloat(value)
        msg == <<"Invalid value for ", field, ": must be a positive number">>
    IN  IF ~p.ok THEN Reject(acc, msg)
        ELSE IF FLe(p.v, FromInt(0)) THEN Reject(acc, msg)
        ELSE Accept(acc, field, p.v)

ValidateRange(acc, field, value, requirements) ==
    LET p == ParseFloat(value)
    IN  IF ~p.ok THEN Reject(acc, <<"Invalid value for ", field, ": must be a number">>)
        ELSE IF FLt(p.v, FromInt(requirements.min)) \/ FGt(p.v, FromInt(requirements.max))
             THEN Reject(acc, <<"Invalid value for ", field, ": must be between ",
                                ToString(requirements.min), " and ",
                                ToString(requirements.max)>>)
        ELSE Accept(acc, field, p.v)

\* ValidateField without the test for an empty value: only an absent key is missing
ValidateField_EmptyNotMissing(acc, record, field) ==
    IF field \notin DOMAIN record
    THEN Reject(acc, <<"Missing required field: ", field>>)
    ELSE LET value == Strip(record[field])
             requirements == field_requirements[field]
         IN  CASE requirements.type = "string" -> Accept(acc, field, value)
               [] requirements.type = "positive_integer" ->
                      ValidatePositiveInteger(acc, field, value)
               [] requirements.type = "positive_number" ->
                      ValidatePositiveNumber(acc, field, value)
               [] requirements.type = "range" ->
                      ValidateRange(acc, field, value, requirements)

\* one pass of the loop over required_fields: acc is [row_errors, valid_record]
ValidateField(acc, record, field) ==
    IF field \notin DOMAIN record \/ Strip(record[field]) = ""
    THEN Reject(acc, <<"Missing required field: ", field>>)
    ELSE LET value == Strip(record[field])
             requirements == field_requirements[field]
         IN  CASE requirements.type = "string" -> Accept(acc, field, value)
               [] requirements.type = "positive_integer" ->
                      ValidatePositiveInteger(acc, field, value)
               [] requirements.type = "positive_number" ->
                      ValidatePositiveNumber(acc, field, value)
               [] requirements.type = "range" ->
                      ValidateRange(acc, field, value, requirements)

\* the loop over required_fields, from field number j on
RECURSIVE ValidateFields(_, _, _)
ValidateFields(acc, record, j) ==
    IF j > Len(required_fields) THEN acc
    ELSE ValidateFields(ValidateField(acc, record, required_fields[j]), record, j + 1)

\* row_errors and valid_record of one record
ValidateRecord(record) ==
    ValidateFields([row_errors |-> <<>>, valid_record |-> <<>>], record, 1)

\* the end of one pass of the loop over records: st is [errors, valid_records]
CollectRow(st, i, row) ==
    IF row.row_errors # <<>>
    THEN [st EXCEPT !.errors =
              Append(@, <<"Row ", ToString(i), ": ">> \o Join(row.row_errors, ", "))]
    ELSE [st EXCEPT !.valid_records = Append(@, row.valid_record)]

\* the loop over records, from record number i on
RECURSIVE ValidateRows(_, _, _)
ValidateRows(st, recs, i) ==
    IF i > Len(recs) THEN st
    ELSE ValidateRows(CollectRow(st, i, ValidateRecord(recs[i])), recs, i + 1)

missing_fields(first_record) ==
    SelectSeq(required_fields, LAMBDA field : field \notin DOMAIN first_record)

\* what a call returns: the tuple (is_valid, error_message, valid_records)
Returned(is_valid, error_message, valid_records) ==
    [raised |-> "none", is_valid |-> is_valid, error_message |-> error_message,
     valid_records |-> valid_records]

\* what a call that raises leaves
Raised(exception) ==
    [raised |-> exception, is_valid |-> FALSE, error_message |-> <<>>,
     valid_records |-> <<>>]

\* HeaderCheck that lets every header through to the row loop
HeaderCheck_Skipped(recs) == [failed |-> FALSE, message |-> <<>>]

\* the header check
HeaderCheck(recs) ==
    LET missing == missing_fields(recs[1])
    IN  IF missing # <<>>
        THEN [failed |-> TRUE,
              message |-> <<"ERROR: Missing required field(s): ">>
                          \o Join([j \in 1..Len(missing) |-> <<missing[j]>>], ", ")
                          \o <<" in header.">>]
        ELSE [failed |-> FALSE, message |-> <<>>]

\* RowCheck that reports the first failing row only
RowCheck_FirstErrorOnly(recs) ==
    LET st == ValidateRows([errors |-> <<>>, valid_records |-> <<>>], recs, 1)
    IN  IF st.errors # <<>>
        THEN Returned(FALSE, st.errors[1], <<>>)
        ELSE Returned(TRUE, <<>>, st.valid_records)

\* the result of the row loop
RowCheck(recs) ==
    LET st == ValidateRows([errors |-> <<>>, valid_records |-> <<>>], recs, 1)
    IN  IF st.errors # <<>>
        THEN Returned(FALSE, Join(st.errors, "\n"), <<>>)
        ELSE Returned(TRUE, <<>>, st.valid_records)

validate_data(recs) ==
    IF recs = <<>> THEN Raised("IndexError")
    ELSE LET header == HeaderCheck(recs)
         IN  IF header.failed THEN Returned(FALSE, header.message, <<>>)
             ELSE RowCheck(recs)

(***************************************************************************)
(* calculate_metrics.                                                      *)
(***************************************************************************)
PredictedFailureRisk(vibration_level, scaling_factor) ==
    Round2(FMul(vibration_level, scaling_factor))

MaintenanceUrgencyRatio(predicted_failure_risk, runtime_hours) ==
    Round2(FMul(FDiv(predicted_failure_risk, FromInt(runtime_hours)), FromInt(100)))

OperatingMargin(max_operating_hours, runtime_hours) ==
    Round2(FMul(FDiv(FromInt(max_operating_hours - runtime_hours),
                     FromInt(max_operating_hours)), FromInt(100)))

CompositeScore(operating_margin, maintenance_urgency_ratio) ==
    Round2(FAdd(FMul(operating_margin, Fin(3, 10)),
                FMul(FSub(FromInt(100), maintenance_urgency_ratio), Fin(7, 10))))

EfficiencyRatio(runtime_hours, predicted_failure_risk) ==
    Round2(FDiv(FromInt(runtime_hours), predicted_failure_risk))

\* the final recommendation: <<status, recommendation>>
Recommendation(composite_score, efficiency_ratio, maintenance_urgency_ratio, maintenance_threshold) ==
    LET is_efficient == FLe(Fin(90, 100), efficiency_ratio)
                        /\ FLe(efficiency_ratio, Fin(990, 100))
        is_urgent == FGt(maintenance_urgency_ratio, maintenance_threshold)
    IN  IF FGe(composite_score, FromInt(75)) /\ is_efficient /\ ~is_urgent
        THEN <<"Optimal", "No immediate maintenance required">>
        ELSE <<"Requires Maintenance", "Schedule maintenance promptly">>

\* calculate_metrics with the rounding deferred to the end: every metric is
\* computed from unrounded values
calculate_metrics_RoundAtEnd(record) ==
    LET runtime_hours == FromInt(record["runtime_hours"])
        max_operating_hours == FromInt(record["max_operating_hours"])
        risk == FMul(record["vibration_level"], record["scaling_factor"])
    IN  IF IsZero(runtime_hours) \/ IsZero(max_operating_hours) \/ IsZero(risk)
        THEN [raised |-> "ZeroDivisionError"]
        ELSE LET urgency == FMul(FDiv(risk, runtime_hours), FromInt(100))
                 margin == FMul(FDiv(FSub(max_operating_hours, runtime_hours),
                                     max_operating_hours), FromInt(100))
                 score == FAdd(FMul(margin, Fin(3, 10)),
                               FMul(FSub(FromInt(100), urgency), Fin(7, 10)))
                 ratio == FDiv(runtime_hours, risk)
                 final == Recommendation(Round2(score), Round2(ratio), Round2(urgency),
                                         record["maintenance_threshold"])
             IN  [raised |-> "none",
                  predicted_failure_risk |-> Round2(risk),
                  maintenance_urgency_ratio |-> Round2(urgency),
                  operating_margin |-> Round2(margin),
                  composite_score |-> Round2(score),
                  efficiency_ratio |-> Round2(ratio),
                  status |-> final[1],
                  recommendation |-> final[2]]

\* the dict a call returns, or the exception it raises
calculate_metrics(record) ==
    LET vibration_level == record["vibration_level"]
        scaling_factor == record["scaling_factor"]
        runtime_hours == record["runtime_hours"]
        max_operating_hours == record["max_operating_hours"]
        maintenance_threshold == record["maintenance_threshold"]
        predicted_failure_risk == PredictedFailureRisk(vibration_level, scaling_factor)
    IN  IF runtime_hours = 0 \/ max_operating_hours = 0 \/ IsZero(predicted_failure_risk)
        THEN [raised |-> "ZeroDivisionError"]
        ELSE LET maintenance_urgency_ratio ==
                     MaintenanceUrgencyRatio(predicted_failure_risk, runtime_hours)
                 operating_margin == OperatingMargin(max_operating_hours, runtime_hours)
                 composite_score ==
                     CompositeScore(operating_margin, maintenance_urgency_ratio)
                 efficiency_ratio == EfficiencyRatio(runtime_hours, predicted_failure_risk)
                 final == Recommendation(composite_score, efficiency_ratio,
                                         maintenance_urgency_ratio, maintenance_threshold)
             IN  [raised |-> "none",
                  predicted_failure_risk |-> predicted_failure_risk,
                  maintenance_urgency_ratio |-> maintenance_urgency_ratio,
                  operating_margin |-> operating_margin,
                  composite_score |-> composite_score,
                  efficiency_ratio |-> efficiency_ratio,
                  status |-> final[1],
                  recommendation |-> final[2]]

(***************************************************************************)
(* The reports and parse_csv_data.                                         *)
(***************************************************************************)
\* the markdown code fence, three backquotes (a backquote cannot be written in a
\* string here)
CodeFence == "~~~"

\* the failure summary of the validation report
FailureSummary(error_message) ==
    <<"Validation failed with the following errors:\n", CodeFence, "\n">>
    \o error_message \o <<"\n", CodeFence>>

generate_validation_report(is_valid, recs, error_message) ==
    <<"# Data Validation Report\n">>
    \o (IF recs # <<>>
        THEN <<"## Data Structure Check:\n", "- Number of machines: ",
               ToString(Len(recs)), "\n", "- Number of fields per record: ",
               ToString(Len(required_fields)), "\n\n", "## Required Fields Check:\n">>
             \o Join([j \in 1..Len(required_fields) |->
                        <<"- ", required_fields[j], ": ",
                          IF required_fields[j] \in DOMAIN recs[1]
                          THEN "present" ELSE "missing", "\n">>], "")
             \o <<"\n## Validation Summary:\n">>
             \o (IF is_valid
                 THEN <<"Data validation is successful! Would you like to proceed with analysis or provide another dataset?">>
                 ELSE FailureSummary(error_message))
        ELSE <<"## Validation Summary:\n">> \o FailureSummary(error_message))

\* the analysis report: the total and one section per (record, calc) pair
generate_analysis_report(recs, calcs) ==
    [total |-> Len(recs),
     machines |-> [i \in 1..(IF Len(recs) < Len(calcs) THEN Len(recs) ELSE Len(calcs)) |->
                      [record |-> recs[i], calc |-> calcs[i], rule |-> i < Len(recs)]]]

\* the rows the reader yields, or the error text
parse_csv_data(rows) ==
    IF rows = <<>>
    THEN [ok |-> FALSE, rows |-> <<>>,
          text |-> <<"ERROR: Invalid data format. Please provide data in CSV format. Details: ",
                     "No data found in the CSV input">>]
    ELSE [ok |-> TRUE, rows |-> rows, text |-> <<>>]

(***************************************************************************)
(* The inputs: batches of raw rows, a raw row being a function from some   *)
(* field names to strings.                                                 *)
(***************************************************************************)
\* longest batch of LongBatches
MaxLong == 7

FieldSet == {required_fields[j] : j \in 1..Len(required_fields)}

\* the vocabulary of field strings
Vocabulary ==
    DOMAIN IntOf \cup DOMAIN DecimalOf \cup DOMAIN Padded
    \cup {"", "abc", "M501", "nan", "inf", "-inf"}

BaseRow ==
    [machine_id |-> "M501", runtime_hours |-> "50", vibration_level |-> "2",
     temperature |-> "80", maintenance_threshold |-> "30",
     max_operating_hours |-> "200", scaling_factor |-> "5"]

\* row without the key field
Without(row, field) == [f \in DOMAIN row \ {field} |-> row[f]]

\* BaseRow with one field given any string, or dropped
ProbeRows ==
    {[BaseRow EXCEPT ![f] = x] : f \in FieldSet, x \in Vocabulary}
    \cup {Without(BaseRow, f) : f \in FieldSet}

\* well-formed rows over a grid of the five fields the metrics read
MetricRows ==
    {[BaseRow EXCEPT !.runtime_hours = rh, !.vibration_level = v, !.scaling_factor = s,
                     !.maintenance_threshold = th, !.max_operating_hours = mo] :
        rh \in {"50", "300", "1"}, v \in {"2", "0.002", "2.4"},
        s \in {"5", "1", "0.004"}, th \in {"30", "10", "0"},
        mo \in {"200", "40", "300"}}

\* a row with two invalid fields and an empty one
BadRow ==
    [BaseRow EXCEPT !.machine_id = "  ", !.runtime_hours = "abc", !.temperature = "200.01"]

\* the rows of the longer batches
SmallPool ==
    {BaseRow, BadRow,
     [BaseRow EXCEPT !.vibration_level = "0.002", !.scaling_factor = "1"],
     [BaseRow EXCEPT !.vibration_level = "2.4", !.scaling_factor = "0.004"],
     Without(BaseRow, "scaling_factor"),
     Without(Without([BaseRow EXCEPT !.max_operating_hours = "0"], "temperature"),
             "machine_id")}

\* batches of MaxLong rows, each BaseRow or BadRow
LongBatches ==
    {[i \in 1..MaxLong |-> IF i \in failing THEN BadRow ELSE BaseRow] :
        failing \in SUBSET (1..MaxLong)}

Batches ==
    {<<>>}
    \cup {<<row>> : row \in ProbeRows \cup MetricRows}
    \cup UNION {[1..n -> SmallPool] : n \in 1..MaxRows}
    \cup LongBatches

(***************************************************************************)
(* The program: calls of process_csv_data and of validate_data.            *)
(***************************************************************************)
NoValidation == Returned(FALSE, <<>>, <<>>)

NoOutput == [kind |-> "none", text |-> <<>>, analysis |-> <<>>]

Init ==
    /\ pc = "idle"
    /\ call = "none"
    /\ records = <<>>
    /\ validation = NoValidation
    /\ calc_calls = <<>>
    /\ calculations = <<>>
    /\ output = NoOutput
    /\ raised = "none"

\* process_csv_data, to the return of the parse error
ProcessParse(rows) ==
    /\ pc = "idle"
    /\ call' = "process_csv_data"
    /\ LET parsed == parse_csv_data(rows)
       IN  /\ records' = parsed.rows
           /\ IF ~parsed.ok
              THEN /\ output' = [kind |-> "error", text |-> parsed.text, analysis |-> <<>>]
                   /\ pc' = "done"
              ELSE /\ output' = output
                   /\ pc' = "validate"
    /\ UNCHANGED <<validation, calc_calls, calculations, raised>>

\* process_csv_data, from validate_data to the return of the validation report
ProcessValidate ==
    /\ pc = "validate"
    /\ LET res == validate_data(records)
       IN  /\ validation' = res
           /\ IF res.raised # "none"
              THEN /\ raised' = res.raised
                   /\ pc' = "raised"
                   /\ output' = output
              ELSE /\ raised' = raised
                   /\ IF ~res.is_valid
                      THEN /\ output' =
                                [kind |-> "validation_report",
                                 text |-> generate_validation_report(
                                              res.is_valid, res.valid_records,
                                              res.error_message),
                                 analysis |-> <<>>]
                           /\ pc' = "done"
                      ELSE /\ output' = output
                           /\ pc' = "calculate"
    /\ UNCHANGED <<call, records, calc_calls, calculations>>

\* process_csv_data: calculate_metrics on the next valid record
ProcessCalculate ==
    /\ pc = "calculate"
    /\ Len(calc_calls) < Len(validation.valid_records)
    /\ LET i == Len(calc_calls) + 1
           calc == calculate_metrics(validation.valid_records[i])
       IN  /\ calc_calls' = Append(calc_calls, i)
           /\ IF calc.raised # "none"
              THEN /\ raised' = calc.raised
                   /\ pc' = "raised"
                   /\ calculations' = calculations
              ELSE /\ calculations' = Append(calculations, calc)
                   /\ UNCHANGED <<raised, pc>>
    /\ UNCHANGED <<call, records, validation, output>>

\* process_csv_data: the analysis report and the return of both reports
ProcessReturn ==
    /\ pc = "calculate"
    /\ Len(calc_calls) = Len(validation.valid_records)
    /\ output' =
           [kind |-> "reports",
            text |-> generate_validation_report(
                         validation.is_valid, validation.valid_records,
                         validation.error_message),
            analysis |-> <<generate_analysis_report(validation.valid_records,
                                                   calculations)>>]
    /\ pc' = "done"
    /\ UNCHANGED <<call, records, validation, calc_calls, calculations, raised>>

\* a call of validate_data
CallValidateData(rows) ==
    /\ pc = "idle"
    /\ call' = "validate_data"
    /\ records' = rows
    /\ LET res == validate_data(rows)
       IN  /\ validation' = res
           /\ raised' = res.raised
           /\ pc' = IF res.raised # "none" THEN "raised" ELSE "done"
    /\ UNCHANGED <<calc_calls, calculations, output>>

\* the call is over: the next one starts afresh
NextCall ==
    /\ pc \in {"done", "raised"}
    /\ pc' = "idle"
    /\ call' = "none"
    /\ records' = <<>>
    /\ validation' = NoValidation
    /\ calc_calls' = <<>>
    /\ calculations' = <<>>
    /\ output' = NoOutput
    /\ raised' = "none"

Next ==
    \/ \E rows \in Batches : ProcessParse(rows)
    \/ ProcessValidate
    \/ ProcessCalculate
    \/ ProcessReturn
    \/ \E rows \in Batches : CallValidateData(rows)
    \/ NextCall

Spec == Init /\ [][Next]_vars

(***************************************************************************)
(* Properties.                                                             *)
(***************************************************************************)
\* validate_data has returned in the current call
HasValidation ==
    /\ validation.raised = "none"
    /\ \/ call = "validate_data" /\ pc = "done"
       \/ call = "process_csv_data" /\ pc \in {"calculate", "done", "raised"}
          /\ output.kind # "error"

\* the first row holds every required field name
HeaderComplete == records # <<>> /\ FieldSet \subseteq DOMAIN records[1]

\* the lines of a text: the pieces between the newline pieces
RECURSIVE Lines(_)
Lines(text) ==
    IF \A k \in 1..Len(text) : text[k] # "\n" THEN <<text>>
    ELSE LET k == CHOOSE k \in 1..Len(text) :
                      text[k] = "\n" /\ \A h \in 1..(k - 1) : text[h] # "\n"
         IN  <<SubSeq(text, 1, k - 1)>> \o Lines(SubSeq(text, k + 1, Len(text)))

\* text holds the pieces of part, in a row
Contains(text, part) ==
    \E k \in 1..(Len(text) - Len(part) + 1) : SubSeq(text, k, k + Len(part) - 1) = part

\* how many times text holds the pieces of part
Count(text, part) ==
    Cardinality({k \in 1..(Len(text) - Len(part) + 1) :
                    SubSeq(text, k, k + Len(part) - 1) = part})

\* the message of one field of a row, alone: <<>> or <<message>>
FieldMessages(record, field) ==
    ValidateField([row_errors |-> <<>>, valid_record |-> <<>>], record, field).row_errors

\* the messages of a row: those of its fields, in schema order
RECURSIVE RowMessages(_, _)
RowMessages(record, j) ==
    IF j > Len(required_fields) THEN <<>>
    ELSE FieldMessages(record, required_fields[j]) \o RowMessages(record, j + 1)

\* the indices of the rows with a message, ascending
FailingRows ==
    SelectSeq([i \in 1..Len(records) |-> i], LAMBDA i : RowMessages(records[i], 1) # <<>>)

\* the line of the error message that starts "Row i: ", or <<>>
LineOf(i) ==
    LET lines == Lines(validation.error_message)
        mine == {k \in 1..Len(lines) :
                    Len(lines[k]) >= 3 /\ SubSeq(lines[k], 1, 3) = <<"Row ", ToString(i), ": ">>}
    IN  IF mine = {} THEN <<>> ELSE lines[CHOOSE k \in mine : TRUE]

\* C1: for a non-empty batch whose first row holds the 7 field names, the
\* failure message has exactly one line per failing row and none for a passing
\* row, in ascending 1-based row index, each line "Row {index}: " followed by
\* every field-level message of the row, in schema field order, joined by ", ";
\* the batch is valid exactly when no row fails.
C1_AllErrorsCollected ==
    (HasValidation /\ HeaderComplete) =>
        /\ validation.is_valid = (FailingRows = <<>>)
        /\ FailingRows # <<>> =>
               Lines(validation.error_message) =
                   [j \in 1..Len(FailingRows) |->
                       <<"Row ", ToString(FailingRows[j]), ": ">>
                       \o Join(RowMessages(records[FailingRows[j]], 1), ", ")]

\* rows 2, 4 and 7 of seven fail, each with three messages, and the report has
\* three lines
C1_Witness ==
    /\ HasValidation /\ HeaderComplete
    /\ Len(records) = 7
    /\ FailingRows = <<2, 4, 7>>
    /\ Len(Lines(validation.error_message)) = 3
    /\ Len(RowMessages(records[4], 1)) = 3

\* the required field names the first row lacks, in schema order
MissingInHeader ==
    SelectSeq(required_fields, LAMBDA f : f \notin DOMAIN records[1])

\* C2: when the first row lacks a required field name, validate_data fails with
\* the single header message listing every missing name, comma-joined in schema
\* order, returns no typed row, and reports no "Row {index}: ..." error.
C2_HeaderFailFast ==
    (HasValidation /\ records # <<>> /\ MissingInHeader # <<>>) =>
        /\ ~validation.is_valid
        /\ validation.valid_records = <<>>
        /\ validation.error_message =
               <<"ERROR: Missing required field(s): ">>
               \o Join([j \in 1..Len(MissingInHeader) |-> <<MissingInHeader[j]>>], ", ")
               \o <<" in header.">>
        /\ \A k \in 1..Len(validation.error_message) :
               validation.error_message[k] \notin {"Row ", "\n"}

\* the first row lacks two field names and a later row has invalid values
C2_Witness ==
    /\ HasValidation
    /\ Len(records) >= 2
    /\ Len(MissingInHeader) = 2
    /\ \E i \in 2..Len(records) : RowMessages(records[i], 1) # <<>>
    /\ ~validation.is_valid

\* a typed value is a real number
IsReal(x) == x.k = "fin"

\* a typed row satisfies the whole schema
SatisfiesSchema(row) ==
    /\ DOMAIN row = FieldSet
    /\ row["runtime_hours"] \in Int /\ row["runtime_hours"] > 0
    /\ row["max_operating_hours"] \in Int /\ row["max_operating_hours"] > 0
    /\ IsReal(row["vibration_level"]) /\ row["vibration_level"].n > 0
    /\ IsReal(row["scaling_factor"]) /\ row["scaling_factor"].n > 0
    /\ IsReal(row["temperature"])
    /\ row["temperature"].n >= 0
    /\ row["temperature"].n <= 200 * row["temperature"].d
    /\ IsReal(row["maintenance_threshold"])
    /\ row["maintenance_threshold"].n >= 0
    /\ row["maintenance_threshold"].n <= 100 * row["maintenance_threshold"].d

\* C3: every typed row a successful validate_data returns satisfies its whole
\* schema: all 7 fields, the integers positive, the numbers real and positive,
\* the ranges real and within their bounds.
C3_TypedRowsSatisfySchema ==
    HasValidation =>
        \A i \in 1..Len(validation.valid_records) :
            SatisfiesSchema(validation.valid_records[i])

\* C4: calculate_metrics never fails on a typed row validate_data returned, and
\* the rounded predicted_failure_risk it divides by is never 0.
C4_MetricsTotal ==
    /\ call = "process_csv_data" => raised = "none"
    /\ \A i \in 1..Len(calc_calls) :
           LET row == validation.valid_records[i]
           IN  ~IsZero(Round2(FMul(row["vibration_level"], row["scaling_factor"])))

\* C5: if a row fails, validate_data returns no typed row and process_csv_data
\* returns only the validation report, calculate_metrics called on no row; if no
\* row fails, there is one typed row per input row, in input order, and when
\* process_csv_data is over calculate_metrics was applied once to each, in order.
C5_AllOrNothing ==
    (HasValidation /\ call = "process_csv_data") =>
        /\ ~validation.is_valid =>
               /\ validation.valid_records = <<>>
               /\ calc_calls = <<>>
               /\ calculations = <<>>
               /\ pc = "done"
               /\ output.kind = "validation_report"
               /\ output.analysis = <<>>
        /\ validation.is_valid =>
               /\ Len(validation.valid_records) = Len(records)
               /\ \A i \in 1..Len(records) :
                      validation.valid_records[i]["machine_id"]
                          = Strip(records[i]["machine_id"])
               /\ pc \in {"done", "raised"} =>
                      calc_calls = [i \in 1..Len(records) |-> i]

\* C6: validate applied to an empty sequence of rows is a failure outcome
\* returned to the caller: it does not succeed, it does not raise, and no row
\* check or metrics computation follows.
C6_EmptyInputIsFailure ==
    (records = <<>> /\ pc \in {"done", "raised"}) =>
        /\ raised = "none"
        /\ calc_calls = <<>>
        /\ call = "validate_data" =>
               ~validation.is_valid /\ validation.error_message # <<>>
        /\ call = "process_csv_data" =>
               output.kind = "error" /\ Contains(output.text, <<"No data found in the CSV input">>)

\* C7: calculate_metrics returns "Optimal" / "No immediate maintenance required"
\* exactly when, on the rounded values, composite_score >= 75 and
\* 0.90 <= efficiency_ratio <= 9.90 and maintenance_urgency_ratio <=
\* maintenance_threshold, and "Requires Maintenance" / "Schedule maintenance
\* promptly" otherwise.
C7_Classification ==
    \A i \in 1..Len(calculations) :
        LET c == calculations[i]
            threshold == validation.valid_records[i]["maintenance_threshold"]
            optimal == /\ FGe(c.composite_score, FromInt(75))
                       /\ FLe(Fin(90, 100), c.efficiency_ratio)
                       /\ FLe(c.efficiency_ratio, Fin(990, 100))
                       /\ FLe(c.maintenance_urgency_ratio, threshold)
        IN  IF optimal
            THEN c.status = "Optimal"
                 /\ c.recommendation = "No immediate maintenance required"
            ELSE c.status = "Requires Maintenance"
                 /\ c.recommendation = "Schedule maintenance promptly"

\* a finite metric has at most 2 decimal places
TwoDecimals(x) == x.k = "fin" => 100 % x.d = 0

\* the metrics of the row vibration_level=2, scaling_factor=5, runtime_hours=50,
\* max_operating_hours=200, maintenance_threshold=30
IsP4Result(c) ==
    /\ c.predicted_failure_risk = Fin(10, 1)
    /\ c.maintenance_urgency_ratio = Fin(20, 1)
    /\ c.operating_margin = Fin(75, 1)
    /\ c.composite_score = Fin(785, 10)
    /\ c.efficiency_ratio = Fin(5, 1)
    /\ c.status = "Optimal"

IsP4Row(row) ==
    /\ row["vibration_level"] = Fin(2, 1) /\ row["scaling_factor"] = Fin(5, 1)
    /\ row["runtime_hours"] = 50 /\ row["max_operating_hours"] = 200
    /\ row["maintenance_threshold"] = Fin(30, 1)

\* C8: each metric is rounded to 2 decimal places before it is used:
\* maintenance_urgency_ratio and efficiency_ratio come from the rounded
\* predicted_failure_risk, composite_score from the rounded operating_margin and
\* maintenance_urgency_ratio; the row of P4 gives 10.0, 20.0, 75.0, 78.5, 5.0 and
\* "Optimal".
C8_RoundingPropagation ==
    \A i \in 1..Len(calculations) :
        LET c == calculations[i]
            row == validation.valid_records[i]
            runtime_hours == FromInt(row["runtime_hours"])
            max_operating_hours == FromInt(row["max_operating_hours"])
        IN  /\ c.predicted_failure_risk =
                   Round2(FMul(row["vibration_level"], row["scaling_factor"]))
            /\ c.maintenance_urgency_ratio =
                   Round2(FMul(FDiv(c.predicted_failure_risk, runtime_hours), FromInt(100)))
            /\ c.operating_margin =
                   Round2(FMul(FDiv(FSub(max_operating_hours, runtime_hours),
                                    max_operating_hours), FromInt(100)))
            /\ c.composite_score =
                   Round2(FAdd(FMul(c.operating_margin, Fin(3, 10)),
                               FMul(FSub(FromInt(100), c.maintenance_urgency_ratio),
                                    Fin(7, 10))))
            /\ c.efficiency_ratio = Round2(FDiv(runtime_hours, c.predicted_failure_risk))
            /\ TwoDecimals(c.predicted_failure_risk)
            /\ TwoDecimals(c.maintenance_urgency_ratio)
            /\ TwoDecimals(c.operating_margin)
            /\ TwoDecimals(c.composite_score)
            /\ TwoDecimals(c.efficiency_ratio)
            /\ IsP4Row(row) => IsP4Result(c)

\* the P4 row is calculated, and so is a row whose product is changed by the
\* rounding, the changed value feeding the later metrics
C8_Witness ==
    /\ \E i \in 1..Len(calculations) :
           IsP4Row(validation.valid_records[i]) /\ IsP4Result(calculations[i])
    /\ \E i \in 1..Len(calculations) :
           LET row == validation.valid_records[i]
               product == FMul(row["vibration_level"], row["scaling_factor"])
               c == calculations[i]
           IN  /\ c.predicted_failure_risk # product
               /\ c.efficiency_ratio # Round2(FDiv(FromInt(row["runtime_hours"]), product))

\* the range fields
RangeFields == {f \in FieldSet : field_requirements[f].type = "range"}

\* s is a numeral of a real number
IsNumeral(s) == s \in DOMAIN IntOf \cup DOMAIN DecimalOf

\* float(s) succeeds
Parseable(s) == IsNumeral(s) \/ s \in {"nan", "inf", "-inf"}

\* the numeral s denotes a real number of [min, max]
InClosedInterval(s, min, max) ==
    /\ IsNumeral(s)
    /\ LET n == IF s \in DOMAIN IntOf THEN IntOf[s] ELSE DecimalOf[s][1]
           d == IF s \in DOMAIN IntOf THEN 1 ELSE DecimalOf[s][2]
       IN  min * d <= n /\ n <= max * d

BetweenMessage(f) ==
    <<"Invalid value for ", f, ": must be between ", ToString(field_requirements[f].min),
      " and ", ToString(field_requirements[f].max)>>

NumberMessage(f) == <<"Invalid value for ", f, ": must be a number">>

\* C9: a range field is accepted exactly when its value parses as a real number
\* of the closed interval [min, max]; a parseable value outside yields the
\* "must be between" message and an unparseable one the "must be a number"
\* message, never the other.
C9_RangeClosedInterval ==
    (HasValidation /\ HeaderComplete) =>
        \A i \in 1..Len(records) : \A f \in RangeFields :
            (f \in DOMAIN records[i] /\ Strip(records[i][f]) # "") =>
                LET value == Strip(records[i][f])
                    inside == InClosedInterval(value, field_requirements[f].min,
                                               field_requirements[f].max)
                    between == Contains(LineOf(i), BetweenMessage(f))
                    number == Contains(LineOf(i), NumberMessage(f))
                IN  /\ inside <=> ~Contains(LineOf(i), <<"Invalid value for ", f>>)
                    /\ (Parseable(value) /\ ~inside) => (between /\ ~number)
                    /\ ~Parseable(value) => (number /\ ~between)

\* field f of the row is absent or empty once trimmed
IsMissing(record, f) == f \notin DOMAIN record \/ Strip(record[f]) = ""

\* C10: in the per-row check, a required field that is absent from a row, or
\* empty once trimmed, gets exactly the message "Missing required field:
\* {name}" and no type or range message; the other fields of the row are still
\* checked; a row has at most one message per field, and a row with such a
\* field is never accepted.
C10_MissingFieldPerRow ==
    (HasValidation /\ HeaderComplete) =>
        \A i \in 1..Len(records) :
            /\ Count(LineOf(i), <<", ">>) + 1 <= Len(required_fields)
            /\ \A f \in FieldSet :
                   /\ Count(LineOf(i), <<"Missing required field: ", f>>)
                      + Count(LineOf(i), <<"Invalid value for ", f>>) <= 1
                   /\ IsMissing(records[i], f) =>
                          /\ Count(LineOf(i), <<"Missing required field: ", f>>) = 1
                          /\ ~Contains(LineOf(i), <<"Invalid value for ", f>>)
                          /\ ~validation.is_valid
                          /\ validation.valid_records = <<>>
                          /\ \A g \in FieldSet \ {f} :
                                 FieldMessages(records[i], g) # <<>> =>
                                     Contains(LineOf(i), FieldMessages(records[i], g)[1])
                   /\ ~IsMissing(records[i], f) =>
                          ~Contains(LineOf(i), <<"Missing required field: ", f>>)

\* a row after the first lacks a field name, another row has an empty field and
\* invalid values in the fields after it
C10_Witness ==
    /\ HasValidation /\ HeaderComplete
    /\ \E i \in 2..Len(records) :
           /\ "scaling_factor" \notin DOMAIN records[i]
           /\ LineOf(i) = <<"Row ", ToString(i), ": ", "Missing required field: ",
                            "scaling_factor">>
    /\ \E i \in 1..Len(records) :
           /\ "machine_id" \in DOMAIN records[i] /\ records[i]["machine_id"] = "  "
           /\ Count(LineOf(i), <<"Missing required field: ", "machine_id">>) = 1
           /\ Contains(LineOf(i), <<"Invalid value for ", "temperature">>)

====
